---- MODULE Spec2Model ----
(***************************************************************************)
(* Railway ticket booking backend (src/Main.py).                           *)
(*                                                                         *)
(* The service is a set of asynchronous request handlers over a document   *)
(* store.  Every `await` on a store call is one atomic store operation;    *)
(* between two awaits of one handler any other handler may run.  The model *)
(* keeps the two collections the handlers touch (trains, bookings) and the *)
(* bag of handlers that are in flight, each with its position and locals.  *)
(*                                                                         *)
(* The store is modelled at the level of the driver calls the source       *)
(* makes: documents are compared field by field, an `_id` is the ordinal   *)
(* of the insert that created the document, and a stored journeyDate       *)
(* matches a query datetime of the same calendar day.                      *)
(***************************************************************************)
EXTENDS Integers, Sequences, FiniteSets, Bags, TLC

----------------------------------------------------------------------------
(* Bounds *)

\* handlers that may be in flight at once
MaxInflight == 2
\* requests accepted in one run
MaxRequests == 3
\* outcomes of the random PNR draw that the model explores
NumDraws == 2

----------------------------------------------------------------------------
(* Program constants *)

\* k=10 in random.choices(...)
PnrLength == 10

\* string.ascii_uppercase + string.digits
PnrAlphabet ==
    << "A","B","C","D","E","F","G","H","I","J","K","L","M",
       "N","O","P","Q","R","S","T","U","V","W","X","Y","Z",
       "0","1","2","3","4","5","6","7","8","9" >>

----------------------------------------------------------------------------
(* Dates *)

\* datetime.strptime(date, "%Y-%m-%d"): a datetime at midnight of that day
Strptime(s) ==
    CASE s = "2024-04-30" -> <<2024, 4, 30, 0, 0, 0>>
      [] s = "2024-05-01" -> <<2024, 5, 1, 0, 0, 0>>
      [] s = "2024-05-02" -> <<2024, 5, 2, 0, 0, 0>>

\* date_obj.replace(hour=23, minute=59, second=59)
EndOfDay(dt) == <<dt[1], dt[2], dt[3], 23, 59, 59>>

RECURSIVE DtLessFrom(_, _, _)
DtLessFrom(a, b, i) ==
    IF i > Len(a) THEN FALSE
    ELSE IF a[i] # b[i] THEN a[i] < b[i]
    ELSE DtLessFrom(a, b, i + 1)

\* datetime ordering used by the $gte / $lt range of search_trains
DtLess(a, b) == DtLessFrom(a, b, 1)

\* a stored journeyDate (calendar date) matches the queried datetime
DateMatches(journeyDate, dt) == journeyDate = <<dt[1], dt[2], dt[3]>>

----------------------------------------------------------------------------
(* Reference data: the trains collection *)

TrainDocs ==
    << [ _id |-> "id-T100", trainNumber |-> "T100", name |-> "Express",
        from |-> "MAS", to |-> "SBC",
        departureTime |-> <<2024, 5, 1, 9, 30, 0>>,
        arrivalTime |-> <<2024, 5, 1, 15, 0, 0>>,
        classes |-> << [type |-> "SL", totalSeats |-> 2, fare |-> 100],
                       [type |-> "AC", totalSeats |-> 1, fare |-> 250] >> ],
      [ _id |-> "id-T200", trainNumber |-> "T200", name |-> "Mail",
        from |-> "MAS", to |-> "SBC",
        departureTime |-> <<2024, 5, 2, 6, 0, 0>>,
        arrivalTime |-> <<2024, 5, 2, 12, 0, 0>>,
        classes |-> << [type |-> "SL", totalSeats |-> 1, fare |-> 80] >> ],
      [ _id |-> "id-T300", trainNumber |-> "T300", name |-> "Works",
        from |-> "MAS", to |-> "CBE",
        departureTime |-> <<2024, 5, 1, 4, 0, 0>>,
        arrivalTime |-> <<2024, 5, 1, 8, 0, 0>>,
        classes |-> << >> ] >>

TrainNumbers == {"T100", "T300", "T999"}
DateStrings == {"2024-04-30", "2024-05-01"}

----------------------------------------------------------------------------
(* Requests: the Booking bodies that clients post *)

Passenger(n) == [name |-> n, seatNumber |-> "-"]

BaseRequest ==
    [ pnr |-> <<"m","i","n","e">>, train |-> "id-T100", user |-> "u1",
      journeyDate |-> <<2024, 5, 1>>, status |-> "confirmed",
      passengers |-> <<Passenger("p1"), Passenger("p2")>>,
      class_type |-> "SL", totalFare |-> 200 ]

Requests ==
    { BaseRequest,
      [BaseRequest EXCEPT !.status = "pending",
                          !.passengers = <<Passenger("p1")>>,
                          !.class_type = "AC", !.totalFare = 0],
      [BaseRequest EXCEPT !.passengers = <<>>, !.class_type = "XX",
                          !.journeyDate = <<2024, 4, 30>>] }

----------------------------------------------------------------------------
(* State *)

VARIABLES
    trains,     \* db.db.trains: sequence of train documents, in natural order
    bookings,   \* db.db.bookings: sequence of booking documents, in insert order
    inflight,   \* bag of handlers between two awaits, or about to respond
    served      \* number of requests accepted so far (bounds the run)

vars == <<trains, bookings, inflight, served>>

\* the value a find_one returns when nothing matches
NoBooking ==
    [ _id |-> 0, pnr |-> <<>>, train |-> "", user |-> "",
      journeyDate |-> <<0, 0, 0>>, status |-> "", passengers |-> <<>>,
      class_type |-> "", totalFare |-> 0 ]

NoTrain ==
    [ _id |-> "", trainNumber |-> "", name |-> "", from |-> "", to |-> "",
      departureTime |-> <<0, 0, 0, 0, 0, 0>>, arrivalTime |-> <<0, 0, 0, 0, 0, 0>>,
      classes |-> <<>> ]

\* an in-flight handler: route, position, path/query parameters and locals
Handler(op, pc) ==
    [ op |-> op, pc |-> pc, booking_id |-> 0, train_number |-> "", date |-> "",
      modified_count |-> 0, raised |-> "", booking |-> NoBooking,
      train |-> NoTrain, availability |-> <<>>, found |-> <<>> ]

----------------------------------------------------------------------------
(* PNR generation *)

\* one outcome of random.choices(population, k): k draws with replacement;
\* the model explores the outcomes numbered 1..NumDraws
RandomChoices(population, k, n) ==
    [i \in 1..k |-> population[((n * i) % Len(population)) + 1]]

----------------------------------------------------------------------------
(* Store operations on the bookings collection *)

\* a bookings collection whose pnr index is not unique
DuplicateKey_noIndex(coll, doc) == FALSE

\* unique index on pnr (connect_to_mongo)
DuplicateKey(coll, doc) == \E i \in 1..Len(coll) : coll[i].pnr = doc.pnr

\* insert_one: the driver assigns the next _id
InsertOne(coll, doc) ==
    Append(coll, [ _id |-> Len(coll) + 1, pnr |-> doc.pnr, train |-> doc.train,
                   user |-> doc.user, journeyDate |-> doc.journeyDate,
                   status |-> doc.status, passengers |-> doc.passengers,
                   class_type |-> doc.class_type, totalFare |-> doc.totalFare ])

\* find_one({"_id": id})
FindOneById(coll, id) ==
    IF id \in 1..Len(coll) THEN coll[id] ELSE NoBooking

\* find_one({"pnr": pnr}): the first match in natural order
FindOneByPnr(coll, pnr) ==
    IF \E i \in 1..Len(coll) : coll[i].pnr = pnr
    THEN coll[CHOOSE i \in 1..Len(coll) :
                 /\ coll[i].pnr = pnr
                 /\ \A j \in 1..(i - 1) : coll[j].pnr # pnr]
    ELSE NoBooking

\* count_documents({"train": t, "journeyDate": dt, "status": s})
CountDocuments(coll, t, dt, s) ==
    Cardinality({ i \in 1..Len(coll) :
                    /\ coll[i].train = t
                    /\ DateMatches(coll[i].journeyDate, dt)
                    /\ coll[i].status = s })

\* an update whose filter is ignored, so that every document is rewritten
UpdateOneCancelled_noFilter(coll, id) ==
    [i \in 1..Len(coll) |-> [coll[i] EXCEPT !.status = "cancelled"]]

\* update_one({"_id": id}, {"$set": {"status": "cancelled"}})
UpdateOneCancelled(coll, id) ==
    [i \in 1..Len(coll) |->
        IF coll[i]._id = id THEN [coll[i] EXCEPT !.status = "cancelled"]
        ELSE coll[i]]

\* a cancel that reports the acknowledgement of the write
ModifiedCount_acknowledged(coll, id) == 1

\* a cancel that reports the matched count instead of the modified count
ModifiedCount_matched(coll, id) ==
    IF \E i \in 1..Len(coll) : coll[i]._id = id THEN 1 ELSE 0

\* UpdateResult.modified_count: a matched document that already holds the
\* value being set is matched but not modified
ModifiedCount(coll, id) ==
    IF \E i \in 1..Len(coll) : coll[i]._id = id /\ coll[i].status # "cancelled"
    THEN 1 ELSE 0

----------------------------------------------------------------------------
(* Pure parts of the services *)

\* find_one({"trainNumber": train_number}); trainNumber has a unique index
FindTrain(coll, train_number) ==
    IF \E i \in 1..Len(coll) : coll[i].trainNumber = train_number
    THEN coll[CHOOSE i \in 1..Len(coll) : coll[i].trainNumber = train_number]
    ELSE NoTrain

\* the trains.find filter of search_trains
SearchMatches(t, from_station, to_station, date_obj) ==
    /\ t.from = from_station
    /\ t.to = to_station
    /\ ~DtLess(t.departureTime, date_obj)
    /\ DtLess(t.departureTime, EndOfDay(date_obj))

RECURSIVE FindTrains(_, _, _, _)
\* cursor.to_list(length=None): the matching trains in natural order
FindTrains(coll, from_station, to_station, date_obj) ==
    IF coll = <<>> THEN <<>>
    ELSE LET rest == FindTrains(Tail(coll), from_station, to_station, date_obj)
         IN  IF SearchMatches(Head(coll), from_station, to_station, date_obj)
             THEN <<Head(coll)>> \o rest
             ELSE rest

\* an availability loop that returns after its first class
AvailabilityOf_firstClass(train, count) ==
    [i \in 1..(IF Len(train.classes) > 0 THEN 1 ELSE 0) |->
        [type |-> train.classes[i].type,
         seats |-> train.classes[i].totalSeats - count]]

\* the availability dict built by check_seat_availability from one count
AvailabilityOf(train, count) ==
    [i \in 1..Len(train.classes) |->
        [type |-> train.classes[i].type,
         seats |-> train.classes[i].totalSeats - count]]

\* check_seat_availability read in one piece, for a known train
CheckSeatAvailability(tcoll, bcoll, train_number, date) ==
    LET train == FindTrain(tcoll, train_number)
    IN  AvailabilityOf(train,
            CountDocuments(bcoll, train._id, Strptime(date), "confirmed"))

----------------------------------------------------------------------------
(* Initial state: the catalogue is loaded, no booking exists, no request   *)
(* is being served                                                         *)

Init ==
    /\ trains = TrainDocs
    /\ bookings = <<>>
    /\ inflight = EmptyBag
    /\ served = 0

Accepting ==
    /\ BagCardinality(inflight) < MaxInflight
    /\ served < MaxRequests

\* a request is accepted and its handler runs up to its next await
Start(h) ==
    /\ inflight' = inflight (+) SetToBag({h})
    /\ served' = served + 1
\* an in-flight handler resumes and runs up to its next await
Step(h, g) ==
    /\ inflight' = (inflight (-) SetToBag({h})) (+) SetToBag({g})
    /\ UNCHANGED served

----------------------------------------------------------------------------
(* POST /bookings: book_ticket -> create_booking *)

\* a create_booking that inserts the request with the pnr it carries
BookTicketInsert_keepPnr(req, n) ==
    /\ Accepting
    /\ IF DuplicateKey(bookings, req)
       THEN /\ bookings' = bookings
            /\ Start([Handler("book_ticket", "respond")
                        EXCEPT !.raised = "DuplicateKeyError"])
       ELSE /\ bookings' = InsertOne(bookings, req)
            /\ Start([Handler("book_ticket", "find")
                        EXCEPT !.booking_id = Len(bookings) + 1])
    /\ UNCHANGED trains

\* an insert that writes the document before the index refuses it
BookTicketInsert_storeThenRaise(req, n) ==
    LET booking_data ==
            [req EXCEPT !.pnr = RandomChoices(PnrAlphabet, PnrLength, n)]
    IN  /\ Accepting
        /\ bookings' = InsertOne(bookings, booking_data)
        /\ IF DuplicateKey(bookings, booking_data)
           THEN Start([Handler("book_ticket", "respond")
                          EXCEPT !.raised = "DuplicateKeyError"])
           ELSE Start([Handler("book_ticket", "find")
                          EXCEPT !.booking_id = Len(bookings) + 1])
        /\ UNCHANGED trains

\* line 128-129: the request's pnr is overwritten by a fresh draw, then the
\* document is inserted; the unique index makes the insert raise on a
\* duplicate pnr and the exception leaves the handler
BookTicketInsert(req, n) ==
    LET booking_data ==
            [req EXCEPT !.pnr = RandomChoices(PnrAlphabet, PnrLength, n)]
    IN  /\ Accepting
        /\ IF DuplicateKey(bookings, booking_data)
           THEN /\ bookings' = bookings
                /\ Start([Handler("book_ticket", "respond")
                            EXCEPT !.raised = "DuplicateKeyError"])
           ELSE /\ bookings' = InsertOne(bookings, booking_data)
                /\ Start([Handler("book_ticket", "find")
                            EXCEPT !.booking_id = Len(bookings) + 1])
        /\ UNCHANGED trains

\* line 130: read the inserted document back by its _id
BookTicketFind(h) ==
    /\ h.op = "book_ticket" /\ h.pc = "find"
    /\ Step(h, [h EXCEPT !.pc = "respond",
                         !.booking = FindOneById(bookings, h.booking_id)])
    /\ UNCHANGED <<trains, bookings>>

----------------------------------------------------------------------------
(* PUT /bookings/{booking_id}/cancel: cancel_ticket -> cancel_booking *)

\* line 136-139: one atomic update_one keyed by _id
CancelTicketUpdate(id) ==
    /\ Accepting
    /\ bookings' = UpdateOneCancelled(bookings, id)
    /\ Start([Handler("cancel_ticket", "respond")
                EXCEPT !.booking_id = id,
                       !.modified_count = ModifiedCount(bookings, id)])
    /\ UNCHANGED trains

----------------------------------------------------------------------------
(* GET /trains/{train_number}/availability *)

\* line 110-113: look the train up; an unknown train returns None at once
CheckAvailabilityFindTrain(train_number, date) ==
    LET train == FindTrain(trains, train_number)
    IN  /\ Accepting
        /\ Start([Handler("check_availability",
                          IF train = NoTrain THEN "respond" ELSE "count")
                    EXCEPT !.train_number = train_number, !.date = date,
                           !.train = train])
        /\ UNCHANGED <<trains, bookings>>

\* line 115-125: count the confirmed bookings of the train and date, then
\* subtract that count from every class
CheckAvailabilityCount(h) ==
    /\ h.op = "check_availability" /\ h.pc = "count"
    /\ Step(h, [h EXCEPT !.pc = "respond",
                         !.availability =
                            AvailabilityOf(h.train,
                                CountDocuments(bookings, h.train._id,
                                               Strptime(h.date), "confirmed"))])
    /\ UNCHANGED <<trains, bookings>>

----------------------------------------------------------------------------
(* GET /trains/search and GET /bookings/pnr/{pnr_number} *)

\* line 100-107, 150-159: one find over the trains collection
SearchTrainsRoute(from_station, to_station, date) ==
    /\ Accepting
    /\ Start([Handler("search_trains_route", "respond")
                EXCEPT !.found = FindTrains(trains, from_station, to_station,
                                            Strptime(date))])
    /\ UNCHANGED <<trains, bookings>>

\* a status lookup done with find_one_and_update, which writes the document
GetBookingStatus_findOneAndUpdate(pnr_number) ==
    /\ Accepting
    /\ Start([Handler("get_booking_status", "respond")
                EXCEPT !.booking = FindOneByPnr(bookings, pnr_number)])
    /\ bookings' = [i \in 1..Len(bookings) |->
                        IF bookings[i].pnr = pnr_number
                        THEN [bookings[i] EXCEPT !.status = "viewed"]
                        ELSE bookings[i]]
    /\ UNCHANGED trains

\* line 132-133, 178-183: one find_one by pnr
GetBookingStatus(pnr_number) ==
    /\ Accepting
    /\ Start([Handler("get_booking_status", "respond")
                EXCEPT !.booking = FindOneByPnr(bookings, pnr_number)])
    /\ UNCHANGED <<trains, bookings>>

----------------------------------------------------------------------------
(* The route's answer, and the end of a handler *)

\* HTTP status the route answers with once its service call has returned
ResponseCode(h) ==
    CASE h.raised # "" -> 500
      [] h.op = "book_ticket" ->
            IF h.booking = NoBooking THEN 400 ELSE 200
      [] h.op = "cancel_ticket" ->
            IF h.modified_count > 0 THEN 200 ELSE 404
      [] h.op = "check_availability" ->
            IF h.availability = <<>> THEN 404 ELSE 200
      [] h.op = "search_trains_route" ->
            IF h.found = <<>> THEN 404 ELSE 200
      [] h.op = "get_booking_status" ->
            IF h.booking = NoBooking THEN 404 ELSE 200

Respond(h) ==
    /\ h.pc = "respond"
    /\ inflight' = inflight (-) SetToBag({h})
    /\ UNCHANGED <<trains, bookings, served>>

----------------------------------------------------------------------------

PnrNumbers ==
    { RandomChoices(PnrAlphabet, PnrLength, 1) }
        \cup { BaseRequest.pnr }

Next ==
    \/ \E req \in Requests, n \in 1..NumDraws : BookTicketInsert(req, n)
    \/ \E h \in BagToSet(inflight) : BookTicketFind(h)
    \/ \E id \in 0..Len(bookings) : CancelTicketUpdate(id)
    \/ \E tn \in TrainNumbers, d \in DateStrings : CheckAvailabilityFindTrain(tn, d)
    \/ \E h \in BagToSet(inflight) : CheckAvailabilityCount(h)
    \/ \E d \in DateStrings : SearchTrainsRoute("MAS", "SBC", d)
    \/ \E p \in PnrNumbers : GetBookingStatus(p)
    \/ \E h \in BagToSet(inflight) : Respond(h)

Spec == Init /\ [][Next]_vars

----------------------------------------------------------------------------
(* Vocabulary of the properties *)

\* the inventory keys of the catalogue: (train document, journey date, class)
JourneyDates == { <<2024, 4, 30>>, <<2024, 5, 1>> }
DateStringOf(jd) == CHOOSE d \in DateStrings : DateMatches(jd, Strptime(d))
TrainIndex == 1..Len(trains)
ClassIndex(t) == 1..Len(trains[t].classes)

RECURSIVE SumSeats(_, _)
SumSeats(coll, S) ==
    IF S = {} THEN 0
    ELSE LET i == CHOOSE x \in S : TRUE
         IN  Len(coll[i].passengers) + SumSeats(coll, S \ {i})

\* seats held by the confirmed bookings of one (train, date, class)
ConfirmedSeats(coll, train_id, jd, class_type) ==
    SumSeats(coll, { i \in 1..Len(coll) :
                        /\ coll[i].train = train_id
                        /\ coll[i].journeyDate = jd
                        /\ coll[i].class_type = class_type
                        /\ coll[i].status = "confirmed" })

\* the availability the service reports for class number c of train number t
Reported(coll, t, jd, c) ==
    CheckSeatAvailability(trains, coll, trains[t].trainNumber,
                          DateStringOf(jd))[c].seats

\* the train document a booking refers to, if any
TrainOfBooking(b) == { t \in TrainIndex : trains[t]._id = b.train }
ClassOfBooking(b, t) ==
    { c \in ClassIndex(t) : trains[t].classes[c].type = b.class_type }

\* the handler a cancel request leaves in flight once its update is done
CancelHandler(id, m) ==
    [Handler("cancel_ticket", "respond")
        EXCEPT !.booking_id = id, !.modified_count = m]

\* this step is the update of a cancel request for id, reporting m
CancelStep(id, m) ==
    inflight' = inflight (+) SetToBag({CancelHandler(id, m)})

\* this step is the insert of a booking request: a document is added
InsertStep == Len(bookings') = Len(bookings) + 1

\* this step is a booking request whose insert was refused
RefusedStep ==
    /\ bookings' = bookings
    /\ \E h \in BagToSet(inflight') :
          /\ h.op = "book_ticket" /\ h.pc = "respond"
          /\ ResponseCode(h) # 200
          /\ CopiesIn(h, inflight') = CopiesIn(h, inflight) + 1

\* the document stored for request req with draw n was confirmed on arrival
FromConfirmedRequest(b) ==
    \E req \in Requests, n \in 1..NumDraws :
        /\ req.status = "confirmed"
        /\ b = [InsertOne(<<>>, [req EXCEPT
                    !.pnr = RandomChoices(PnrAlphabet, PnrLength, n)])[1]
                  EXCEPT !._id = b._id, !.status = b.status]

----------------------------------------------------------------------------
\* C1: no overbooking.  For every (train, date, class) the seats held by
\* confirmed bookings never exceed the class's totalSeats, and the
\* availability reported for the class is never negative.
C1_NoOverbooking ==
    \A t \in TrainIndex : \A jd \in JourneyDates : \A c \in ClassIndex(t) :
        /\ ConfirmedSeats(bookings, trains[t]._id, jd, trains[t].classes[c].type)
              <= trains[t].classes[c].totalSeats
        /\ Reported(bookings, t, jd, c) >= 0

----------------------------------------------------------------------------
\* C2: cancellation idempotence.  Of two cancel requests for the same
\* confirmed booking that are in flight together, the one whose update
\* comes first reports success, sets the status to cancelled and raises the
\* availability of the booking's train and date; the one whose update comes
\* second reports failure and changes nothing, so there is exactly one
\* success and one release, and the status ends cancelled.
C2_CancelIdempotent ==
    [][ \A id \in 1..Len(bookings) : \A m \in {0, 1} :
          CancelStep(id, m) =>
            /\ bookings'[id].status = "cancelled"
            /\ bookings[id].status = "confirmed" =>
                 /\ m = 1
                 /\ ResponseCode(CancelHandler(id, m)) = 200
                 /\ \A t \in TrainOfBooking(bookings[id]) :
                    \A c \in ClassOfBooking(bookings[id], t) :
                        Reported(bookings', t, bookings[id].journeyDate, c)
                          > Reported(bookings, t, bookings[id].journeyDate, c)
            /\ BagIn(CancelHandler(id, 1), inflight) =>
                 /\ m = 0
                 /\ ResponseCode(CancelHandler(id, m)) = 404
                 /\ bookings' = bookings
      ]_vars

\* two cancels of one confirmed booking are in flight, one succeeded and
\* one failed, and the booking is cancelled
C2_Witness ==
    \E id \in 1..Len(bookings) :
        /\ FromConfirmedRequest(bookings[id])
        /\ TrainOfBooking(bookings[id]) # {}
        /\ bookings[id].status = "cancelled"
        /\ BagIn(CancelHandler(id, 1), inflight)
        /\ BagIn(CancelHandler(id, 0), inflight)

----------------------------------------------------------------------------
\* C3: PNR uniqueness.  No two stored bookings have the same pnr, and the
\* bookings handed back to callers carry pairwise distinct PNRs.
C3_PnrUnique ==
    /\ \A i, j \in 1..Len(bookings) :
          i # j => bookings[i].pnr # bookings[j].pnr
    /\ \A h, g \in BagToSet(inflight) :
          ( /\ h.op = "book_ticket" /\ h.booking # NoBooking
            /\ g.op = "book_ticket" /\ g.booking # NoBooking )
          => /\ CopiesIn(h, inflight) = 1
             /\ h # g => h.booking.pnr # g.booking.pnr

\* two bookings are stored, both are being returned, and a third request
\* drew a PNR that was taken
C3_Witness ==
    /\ Len(bookings) = 2
    /\ \E h \in BagToSet(inflight) : h.raised = "DuplicateKeyError"

----------------------------------------------------------------------------
\* C4: release correctness.  Cancelling a confirmed booking of k passengers
\* lowers the confirmed seats of its (train, date, class) by exactly k and
\* raises the availability reported for the class by exactly k.
C4_ReleaseBySeatCount ==
    [][ \A id \in 1..Len(bookings) : \A m \in {0, 1} :
          (CancelStep(id, m) /\ bookings[id].status = "confirmed") =>
            \A t \in TrainOfBooking(bookings[id]) :
            \A c \in ClassOfBooking(bookings[id], t) :
              LET b == bookings[id]
                  k == Len(b.passengers)
              IN  /\ ConfirmedSeats(bookings', b.train, b.journeyDate, b.class_type)
                        = ConfirmedSeats(bookings, b.train, b.journeyDate,
                                         b.class_type) - k
                  /\ Reported(bookings', t, b.journeyDate, c)
                        = Reported(bookings, t, b.journeyDate, c) + k
      ]_vars

----------------------------------------------------------------------------
\* C5: booking status state machine.  A stored status is one of pending,
\* confirmed, cancelled, failed, and it changes only along
\* pending -> confirmed, pending -> failed, confirmed -> cancelled.
BookingStatuses == {"pending", "confirmed", "cancelled", "failed"}

AllowedTransition(a, b) ==
    \/ a = b
    \/ a = "pending" /\ b \in {"confirmed", "failed"}
    \/ a = "confirmed" /\ b = "cancelled"

C5_StatusMachine ==
    [][ /\ \A i \in 1..Len(bookings') : bookings'[i].status \in BookingStatuses
        /\ \A i \in 1..Len(bookings) :
              AllowedTransition(bookings[i].status, bookings'[i].status)
      ]_vars

----------------------------------------------------------------------------
\* C6: cancel of a booking that is unknown or not confirmed reports a
\* non-success outcome and leaves every stored booking unchanged.
C6_CancelNonConfirmedNoOp ==
    [][ \A id \in 0..Len(bookings) : \A m \in {0, 1} :
          ( /\ CancelStep(id, m)
            /\ (id = 0 \/ bookings[id].status # "confirmed") ) =>
            /\ ResponseCode(CancelHandler(id, m)) # 200
            /\ bookings' = bookings
      ]_vars

----------------------------------------------------------------------------
\* C7: a booking request that asks for more seats than remain for its
\* (train, date, class) is refused: nothing is stored and the caller gets
\* an error.
Insufficient(req) ==
    \E t \in TrainIndex : \E c \in ClassIndex(t) :
        /\ trains[t]._id = req.train
        /\ trains[t].classes[c].type = req.class_type
        /\ ConfirmedSeats(bookings, req.train, req.journeyDate, req.class_type)
              + Len(req.passengers) > trains[t].classes[c].totalSeats

C7_RejectInsufficient ==
    [][ \A req \in Requests : \A n \in 1..NumDraws :
          (BookTicketInsert(req, n) /\ Insufficient(req)) => RefusedStep
      ]_vars

----------------------------------------------------------------------------
\* C8: a booking request with an empty passenger list, a class the train
\* does not have, or a journey date in the past is refused with an error and
\* stores nothing.
ProcessingDate == <<2024, 5, 1>>

Malformed(req) ==
    \/ req.passengers = <<>>
    \/ \A t \in TrainIndex :
          trains[t]._id = req.train =>
             \A c \in ClassIndex(t) : trains[t].classes[c].type # req.class_type
    \/ DtLess(req.journeyDate, ProcessingDate)

C8_ValidateBeforeMutation ==
    [][ \A req \in Requests : \A n \in 1..NumDraws :
          (BookTicketInsert(req, n) /\ Malformed(req)) => RefusedStep
      ]_vars

----------------------------------------------------------------------------
\* C9: availability formula.  For a known train and date the availability
\* of each class is its totalSeats minus the seats held by the confirmed
\* bookings of that train, date and class.
C9_AvailabilityFormula ==
    \A t \in TrainIndex : \A jd \in JourneyDates : \A c \in ClassIndex(t) :
        Reported(bookings, t, jd, c)
          = trains[t].classes[c].totalSeats
              - ConfirmedSeats(bookings, trains[t]._id, jd,
                               trains[t].classes[c].type)

----------------------------------------------------------------------------
\* C10: a booking returned as a success has status confirmed and a pnr of
\* exactly 10 characters, each an uppercase letter or a digit.
WellFormedPnr(pnr) ==
    /\ Len(pnr) = PnrLength
    /\ \A i \in 1..Len(pnr) :
          \E j \in 1..Len(PnrAlphabet) : pnr[i] = PnrAlphabet[j]

C10_SuccessIsConfirmed ==
    \A h \in BagToSet(inflight) :
        ( /\ h.op = "book_ticket" /\ h.pc = "respond"
          /\ ResponseCode(h) = 200 )
        => /\ h.booking.status = "confirmed"
           /\ WellFormedPnr(h.booking.pnr)

----------------------------------------------------------------------------
\* C11: bounded PNR retry.  A duplicate-PNR refusal of the insert is
\* answered by a new draw and a new insert, so a booking request fails only
\* with PNRAllocationExhausted, after the retry cap, and never with the
\* duplicate-key refusal of a single collision.
C11_RetryOnCollision ==
    \A h \in BagToSet(inflight) :
        (h.op = "book_ticket" /\ h.raised # "")
            => h.raised = "PNRAllocationExhausted"

----------------------------------------------------------------------------
\* C12: no leak on failure.  When the insert of a booking request fails,
\* nothing is stored and the availability reported for every (train, date,
\* class) is what it was before the request: no seat stays reserved for a
\* booking that was not stored.
FailedInsertStep ==
    \E h \in BagToSet(inflight') :
        /\ h.op = "book_ticket" /\ h.raised # ""
        /\ CopiesIn(h, inflight') = CopiesIn(h, inflight) + 1

C12_NoLeakOnFailure ==
    [][ FailedInsertStep =>
          /\ bookings' = bookings
          /\ \A t \in TrainIndex : \A jd \in JourneyDates :
             \A c \in ClassIndex(t) :
                Reported(bookings', t, jd, c) = Reported(bookings, t, jd, c)
      ]_vars

\* an insert has failed while a confirmed booking holds seats of the train
C12_Witness ==
    /\ \E h \in BagToSet(inflight) :
          h.op = "book_ticket" /\ h.raised = "DuplicateKeyError"
    /\ \E t \in TrainIndex : \E jd \in JourneyDates : \E c \in ClassIndex(t) :
          Reported(bookings, t, jd, c) < trains[t].classes[c].totalSeats

----------------------------------------------------------------------------
\* C13: queries are read-only.  Every step of search_trains,
\* check_seat_availability and get_pnr_status leaves the stored trains and
\* the stored bookings (statuses included) unchanged, whatever other
\* requests are in flight.
QueryOps == {"search_trains_route", "check_availability", "get_booking_status"}

\* this step starts, resumes or ends a query handler
QueryStep ==
    \E h \in BagToSet(inflight) \cup BagToSet(inflight') :
        /\ h.op \in QueryOps
        /\ CopiesIn(h, inflight') # CopiesIn(h, inflight)

C13_QueriesReadOnly ==
    [][ QueryStep => (trains' = trains /\ bookings' = bookings) ]_vars

\* an availability query has read a store that holds a booking while a
\* booking or cancel request is in flight beside it
C13_Witness ==
    /\ Len(bookings) >= 1
    /\ \E h \in BagToSet(inflight) :
          h.op = "check_availability" /\ h.pc = "respond"
          /\ h.availability # <<>>
    /\ \E g \in BagToSet(inflight) : g.op \in {"book_ticket", "cancel_ticket"}

----------------------------------------------------------------------------
\* C14 (as claimed): the availability request answers NotFound when the
\* trainNumber is unknown, and for every known train it answers with a
\* mapping that has one integer entry per class of the train.
KnownTrain(train_number) ==
    \E t \in TrainIndex : trains[t].trainNumber = train_number

OneEntryPerClass(h) ==
    /\ Len(h.availability) = Len(h.train.classes)
    /\ \A i \in 1..Len(h.availability) :
          /\ h.availability[i].type = h.train.classes[i].type
          /\ h.availability[i].seats \in Int

AvailabilityAnswers ==
    { h \in BagToSet(inflight) :
        h.op = "check_availability" /\ h.pc = "respond" }

C14_KnownTrainNeverNotFound ==
    \A h \in AvailabilityAnswers :
        IF KnownTrain(h.train_number)
        THEN ResponseCode(h) = 200 /\ OneEntryPerClass(h)
        ELSE ResponseCode(h) = 404

\* C14 (amended): the availability request answers NotFound when the
\* trainNumber is unknown or the train has no class; for every known train
\* with at least one class it answers with a mapping that has one integer
\* entry per class of the train.
C14_AvailabilityOutcome ==
    \A h \in AvailabilityAnswers :
        IF KnownTrain(h.train_number) /\ h.train.classes # <<>>
        THEN ResponseCode(h) = 200 /\ OneEntryPerClass(h)
        ELSE ResponseCode(h) = 404

\* the availability of a known train without classes has been answered
C14_Witness ==
    \E h \in AvailabilityAnswers :
        /\ KnownTrain(h.train_number)
        /\ h.train # NoTrain
        /\ h.train.classes = <<>>
        /\ ResponseCode(h) = 404

----------------------------------------------------------------------------
\* C15: inventory key isolation.  Creating or cancelling a booking for
\* (train, date, class) leaves the availability reported for every other
\* class of that train and date, and for every other train or date,
\* unchanged.
OtherKeysUnchanged(b) ==
    \A t \in TrainIndex : \A jd \in JourneyDates : \A c \in ClassIndex(t) :
        ( \/ trains[t]._id # b.train
          \/ jd # b.journeyDate
          \/ trains[t].classes[c].type # b.class_type )
        => Reported(bookings', t, jd, c) = Reported(bookings, t, jd, c)

C15_KeyIsolation ==
    [][ /\ InsertStep => OtherKeysUnchanged(bookings'[Len(bookings')])
        /\ \A id \in 1..Len(bookings) : \A m \in {0, 1} :
              CancelStep(id, m) => OtherKeysUnchanged(bookings[id])
      ]_vars

----------------------------------------------------------------------------
\* C16: frame of cancellation.  The pnr of a stored booking never changes,
\* and a cancel rewrites no field of its target other than status and no
\* field of any other booking.
C16_CancelFrame ==
    [][ /\ \A i \in 1..Len(bookings) :
              /\ i <= Len(bookings')
              /\ bookings'[i].pnr = bookings[i].pnr
        /\ \A id \in 0..Len(bookings) : \A m \in {0, 1} :
              CancelStep(id, m) =>
                /\ Len(bookings') = Len(bookings)
                /\ \A j \in 1..Len(bookings) :
                      IF j = id
                      THEN bookings'[j] =
                             [bookings[j] EXCEPT !.status = bookings'[j].status]
                      ELSE bookings'[j] = bookings[j]
      ]_vars

\* a cancel has rewritten one of two stored bookings and the other one is
\* still as it was stored
C16_Witness ==
    \E id, j \in 1..Len(bookings) :
        /\ id # j
        /\ BagIn(CancelHandler(id, 1), inflight)
        /\ bookings[id].status = "cancelled"
        /\ bookings[j].status # "cancelled"

----------------------------------------------------------------------------
\* C17: fare computation.  The totalFare of every stored booking is its
\* number of passengers times the fare of its class on its train, whatever
\* totalFare the request carried.
C17_FareComputed ==
    \A i \in 1..Len(bookings) :
        \A t \in TrainOfBooking(bookings[i]) :
        \A c \in ClassOfBooking(bookings[i], t) :
            bookings[i].totalFare
              = Len(bookings[i].passengers) * trains[t].classes[c].fare

----------------------------------------------------------------------------
\* C18: create_booking never stores a client-chosen PNR.  The pnr of every
\* stored booking is a value drawn by the generator, not the pnr that the
\* request carried.
GeneratedPnrs ==
    { RandomChoices(PnrAlphabet, PnrLength, n) : n \in 1..NumDraws }

C18_PnrOverwritten ==
    \A i \in 1..Len(bookings) :
        /\ bookings[i].pnr \in GeneratedPnrs
        /\ \A req \in Requests : bookings[i].pnr # req.pnr

\* a request that carried its own pnr has been stored and handed back
C18_Witness ==
    \E h \in BagToSet(inflight) :
        /\ h.op = "book_ticket" /\ h.pc = "respond"
        /\ ResponseCode(h) = 200
        /\ h.booking._id \in 1..Len(bookings)
        /\ h.booking.pnr = bookings[h.booking._id].pnr
        /\ \A req \in Requests : req.pnr # <<>>

----------------------------------------------------------------------------
\* C19: cancelled is absorbing and bookings are never deleted.  A stored
\* booking with status cancelled keeps that status in every later state, a
\* repeated cancel of it reports failure (modified count 0), and no step
\* removes a booking from the store.
C19_CancelledAbsorbing ==
    [][ /\ Len(bookings') >= Len(bookings)
        /\ \A i \in 1..Len(bookings) :
              /\ i <= Len(bookings')
              /\ bookings'[i]._id = bookings[i]._id
              /\ bookings[i].status = "cancelled"
                    => bookings'[i].status = "cancelled"
        /\ \A id \in 1..Len(bookings) : \A m \in {0, 1} :
              (CancelStep(id, m) /\ bookings[id].status = "cancelled") =>
                 /\ m = 0
                 /\ ResponseCode(CancelHandler(id, m)) = 404
      ]_vars

\* a booking cancelled by an earlier, finished request has been cancelled
\* again, and the repeat is being answered with a failure
C19_Witness ==
    \E id \in 1..Len(bookings) :
        /\ bookings[id].status = "cancelled"
        /\ BagIn(CancelHandler(id, 0), inflight)
        /\ ~BagIn(CancelHandler(id, 1), inflight)

====
